---- MODULE Spec2Model ----
(***************************************************************************)
(* Conversation state and request lifecycle of the PecuniaAI chat front    *)
(* end: the App component (App.tsx), the Chat component (ChatInput.tsx)    *)
(* and the ChatInput form that gates both.                                 *)
(*                                                                         *)
(* Text is a sequence of one-character strings, so that String.trim is     *)
(* computed and not assumed.  The hooks of the mounted component are the   *)
(* variables messages, input and loading; App and Chat declare the same    *)
(* three hooks, and each has its own specification below.                  *)
(***************************************************************************)
EXTENDS Integers, Sequences, FiniteSets, TLC

\* ---------------------------------------------------------------- bounds
MaxLen == 2         \* longest draft typed into the form
MaxCalls == 2       \* submissions through the form in one session
MaxDirectLen == 1   \* longest draft set by a direct call of onChange
MaxDirect == 2      \* direct invocations of sendMessage in one session

\* ------------------------------------------------------------------ text
Whitespace == {" "}
Chars == {" ", "a"}

Texts(max) == UNION {[1..n -> Chars] : n \in 0..max}

Drafts == Texts(MaxLen)

DirectDrafts == Texts(MaxDirectLen)

RECURSIVE trimStart(_)
trimStart(s) ==
  IF s # <<>> /\ Head(s) \in Whitespace THEN trimStart(Tail(s)) ELSE s

RECURSIVE trimEnd(_)
trimEnd(s) ==
  IF s # <<>> /\ s[Len(s)] \in Whitespace
    THEN trimEnd(SubSeq(s, 1, Len(s) - 1))
    ELSE s

\* no trimming at all, as in `if (!input) return`
trimNone(s) == s

\* String.prototype.trim
trim(s) == trimEnd(trimStart(s))

\* the value of a property that the object does not have
Undefined == << "undefined" >>

\* "Error: Could not get response."
ErrorText ==
  << "E","r","r","o","r",":"," ","C","o","u","l","d"," ","n","o","t"," ",
     "g","e","t"," ","r","e","s","p","o","n","s","e","." >>

\* answers the backend may put in the `answer` field
Answers == { <<"4","2">> }

\* what `await res.json()` may yield: an object with or without `answer`,
\* or the JSON value null
Data ==
  { [type |-> "object", answer |-> a] : a \in Answers \cup {Undefined} }
    \cup { [type |-> "null", answer |-> Undefined] }

\* what a handler was handed: nothing, a response, a rejection, or data
NoData == [type |-> "none", answer |-> Undefined]
Response == [type |-> "response", answer |-> Undefined]
FetchRejected == [type |-> "fetch-rejected", answer |-> Undefined]
JsonRejected == [type |-> "json-rejected", answer |-> Undefined]

\* ----------------------------------------------------------------- state
\* useState<Message[]>([])
VARIABLE messages
\* useState("")
VARIABLE input
\* useState(false)
VARIABLE loading
\* bodies handed to fetch, in issue order
VARIABLE requests
\* invocations of sendMessage that reached fetch
VARIABLE calls
\* ids of the calls that ran to their end, in that order
VARIABLE resolved
\* the handler that ran last, and what it was handed
VARIABLE event

vars == <<messages, input, loading, requests, calls, resolved, event>>

Init ==
  /\ messages = <<>>
  /\ input = <<>>
  /\ loading = FALSE
  /\ requests = <<>>
  /\ calls = <<>>
  /\ resolved = <<>>
  /\ event = [handler |-> "mount", got |-> NoData]

\* --------------------------------------------------------------- helpers
userMessage(text) == [role |-> "user", content |-> text]

\* the reply filed under the wrong role
assistantMessageAsUser(data) == [role |-> "user", content |-> data.answer]

assistantMessage(data) == [role |-> "assistant", content |-> data.answer]

errorMessage == [role |-> "assistant", content |-> ErrorText]

\* the body built from the state after setInput("")
bodyOfCleared(text) == [query |-> <<>>]

\* JSON.stringify({ query: input })
bodyOf(text) == [query |-> text]

\* the updater written as (prev) => [m, ...prev]
prepend(prev, m) == <<m>> \o prev

\* the updater (prev) => [...prev, m]
append(prev, m) == Append(prev, m)

\* a catch block that swallows the failure
caughtSilently(prev) == prev

\* the catch block of App.sendMessage
caught(prev) == append(prev, errorMessage)

\* a finally block that leaves the flag alone
afterSettleStuck == loading

\* the finally block of App.sendMessage: setLoading(false)
afterSettle == FALSE

\* setInput left out of sendMessage
inputKept == input

\* setInput("") in sendMessage
inputCleared == <<>>

\* a form that never disables its controls
neverDisabled == FALSE

\* ChatInput's `disabled` prop, passed as disabled={loading}
disabled == loading

\* sendMessage refusing to run while a request is outstanding
acceptsWhenIdle == trim(input) # <<>> /\ ~loading

\* the negation of the early return `if (!input.trim()) return`
accepts == trim(input) # <<>>

Outstanding == {c \in 1..Len(calls) : calls[c].pc \in {"fetch", "json"}}

\* the async function instance created by one invocation of sendMessage
newCall(text, at) == [text |-> text, pc |-> "fetch", userIdx |-> at]

\* call c runs to its end: the promise it returned settles as pc
finish(c, pc) ==
  /\ calls' = [calls EXCEPT ![c].pc = pc]
  /\ resolved' = Append(resolved, c)

\* ------------------------------------------------------------- ChatInput
\* onChange={setInput}
setInput(v) ==
  /\ input' = v
  /\ event' = [handler |-> "onChange", got |-> NoData]
  /\ UNCHANGED <<messages, loading, requests, calls, resolved>>

\* <Input disabled={disabled} onChange=... />
InputChange(v) == ~disabled /\ setInput(v)

\* ------------------------------------------------------------------- App
sendMessageReturn ==
  /\ ~accepts
  /\ event' = [handler |-> "sendMessage", got |-> NoData]
  /\ UNCHANGED <<messages, input, loading, requests, calls, resolved>>

sendMessageFetch ==
  /\ accepts
  /\ messages' = append(messages, userMessage(input))
  /\ input' = inputCleared
  /\ loading' = TRUE
  /\ requests' = Append(requests, bodyOf(input))
  /\ calls' = Append(calls, newCall(input, Len(messages) + 1))
  /\ event' = [handler |-> "sendMessage", got |-> NoData]
  /\ UNCHANGED resolved

\* App.sendMessage up to its first await
sendMessage == sendMessageReturn \/ sendMessageFetch

\* <form onSubmit> with <Button type="submit" disabled={disabled}>
FormSubmit == ~disabled /\ sendMessage

\* catch (err) { ... } finally { setLoading(false) }
Catch(c) ==
  /\ messages' = caught(messages)
  /\ loading' = afterSettle
  /\ finish(c, "fulfilled")

\* fetch(...) resolves with a response; the function awaits res.json()
FetchResolve(c) ==
  /\ calls[c].pc = "fetch"
  /\ calls' = [calls EXCEPT ![c].pc = "json"]
  /\ event' = [handler |-> "fetch", got |-> Response]
  /\ UNCHANGED <<messages, input, loading, requests, resolved>>

\* fetch(...) rejects
FetchReject(c) ==
  /\ calls[c].pc = "fetch"
  /\ Catch(c)
  /\ event' = [handler |-> "fetch", got |-> FetchRejected]
  /\ UNCHANGED <<input, requests>>

\* res.json() resolves with data; data.answer of null throws
JsonResolve(c, data) ==
  /\ calls[c].pc = "json"
  /\ IF data.type = "null"
       THEN Catch(c)
       ELSE /\ messages' = append(messages, assistantMessage(data))
            /\ loading' = afterSettle
            /\ finish(c, "fulfilled")
  /\ event' = [handler |-> "json", got |-> data]
  /\ UNCHANGED <<input, requests>>

\* res.json() rejects: the body is not JSON
JsonReject(c) ==
  /\ calls[c].pc = "json"
  /\ Catch(c)
  /\ event' = [handler |-> "json", got |-> JsonRejected]
  /\ UNCHANGED <<input, requests>>

Settle ==
  \E c \in 1..Len(calls) :
    \/ FetchResolve(c)
    \/ FetchReject(c)
    \/ \E data \in Data : JsonResolve(c, data)
    \/ JsonReject(c)

\* App driven through the rendered form
Next ==
  \/ \E v \in Drafts : InputChange(v)
  \/ Len(calls) < MaxCalls /\ FormSubmit
  \/ Settle

Spec == Init /\ [][Next]_vars

\* every issued request resolves or fails
LiveSpec == Spec /\ WF_vars(Settle)

\* App with its handlers invoked directly, whatever `disabled` says
NextDirect ==
  \/ \E v \in DirectDrafts : setInput(v)
  \/ Len(calls) < MaxDirect /\ sendMessage
  \/ Settle

SpecDirect == Init /\ [][NextDirect]_vars

\* ------------------------------------------------------------------ Chat
\* Chat.sendMessage has the same body up to the first await
chatSendMessage == sendMessage

\* an await that throws ends the function: its promise rejects
chatThrow(c) ==
  /\ finish(c, "rejected")
  /\ UNCHANGED <<messages, loading>>

chatFetchResolve(c) == FetchResolve(c)

chatFetchReject(c) ==
  /\ calls[c].pc = "fetch"
  /\ chatThrow(c)
  /\ event' = [handler |-> "fetch", got |-> FetchRejected]
  /\ UNCHANGED <<input, requests>>

chatJsonResolve(c, data) ==
  /\ calls[c].pc = "json"
  /\ IF data.type = "null"
       THEN chatThrow(c)
       ELSE /\ messages' = append(messages, assistantMessage(data))
            /\ loading' = FALSE
            /\ finish(c, "fulfilled")
  /\ event' = [handler |-> "json", got |-> data]
  /\ UNCHANGED <<input, requests>>

chatJsonReject(c) ==
  /\ calls[c].pc = "json"
  /\ chatThrow(c)
  /\ event' = [handler |-> "json", got |-> JsonRejected]
  /\ UNCHANGED <<input, requests>>

chatSettle ==
  \E c \in 1..Len(calls) :
    \/ chatFetchResolve(c)
    \/ chatFetchReject(c)
    \/ \E data \in Data : chatJsonResolve(c, data)
    \/ chatJsonReject(c)

\* Chat driven through the rendered form
NextChat ==
  \/ \E v \in Drafts : InputChange(v)
  \/ Len(calls) < MaxCalls /\ ~disabled /\ chatSendMessage
  \/ chatSettle

SpecChat == Init /\ [][NextChat]_vars

\* ---------------------------------------------------------------- claims
Blank(s) == \A i \in 1..Len(s) : s[i] \in Whitespace

Last(q) == q[Len(q)]

Assistants == SelectSeq(messages, LAMBDA m : m.role = "assistant")

\* call c ends in this step
Ends(c) == calls[c].pc \in {"fetch", "json"} /\ calls'[c].pc \in {"fulfilled", "rejected"}

\* C1: invoking sendMessage on a draft that is empty or all whitespace
\* changes neither messages, draft nor busy, and issues no request.
C1_BlankSubmitIsNoOp ==
  [][ (event'.handler = "sendMessage" /\ Blank(input)) =>
        /\ messages' = messages
        /\ input' = input
        /\ loading' = loading
        /\ requests' = requests
        /\ calls' = calls ]_vars

C1_Witness ==
  /\ event.handler = "sendMessage"
  /\ input # <<>>
  /\ Blank(input)

\* C2: a non-blank draft X submitted while not busy yields, in the very
\* step of the submit, messages + [user: X], draft "", busy, and exactly
\* one new request whose query is X.
C2_SubmitStep ==
  [][ (event'.handler = "sendMessage" /\ ~Blank(input) /\ ~loading) =>
        /\ messages' = Append(messages, [role |-> "user", content |-> input])
        /\ input' = <<>>
        /\ loading' = TRUE
        /\ requests' = Append(requests, [query |-> input])
        /\ Outstanding' = {Len(requests')} ]_vars

C2_Witness ==
  /\ event.handler = "sendMessage"
  /\ loading
  /\ input = <<>>
  /\ Len(messages) = 3
  /\ Last(messages) = [role |-> "user", content |-> <<" ", "a">>]
  /\ Last(requests) = [query |-> <<" ", "a">>]
  /\ Len(requests) = 2

\* C3: through the form, busy holds exactly while a request is
\* outstanding, and at most one request is outstanding.
C3_BusyIffOutstanding ==
  /\ loading <=> Outstanding # {}
  /\ Cardinality(Outstanding) <= 1

C3_Witness ==
  /\ loading
  /\ Len(calls) = 2
  /\ Outstanding = {2}
  /\ calls[2].pc = "json"

\* C4: when a request succeeds with answer A, exactly one message
\* [assistant: A] is appended; through the form it directly follows the
\* user message of its own submission, and busy is false afterwards.
C4_SuccessAppendsAnswer ==
  [][ \A c \in 1..Len(calls) :
        (Ends(c) /\ event'.got.type = "object" /\ event'.got.answer \in Answers) =>
          /\ messages' = Append(messages, [role |-> "assistant", content |-> event'.got.answer])
          /\ calls[c].userIdx = Len(messages)
          /\ messages[calls[c].userIdx] = [role |-> "user", content |-> calls[c].text]
          /\ loading' = FALSE ]_vars

C4_Witness ==
  /\ event.handler = "json"
  /\ event.got.type = "object"
  /\ ~loading
  /\ messages = << [role |-> "user", content |-> <<"a">>],
                   [role |-> "assistant", content |-> <<"4", "2">>] >>

\* C5: when a request fails (fetch rejects, or the body is not JSON),
\* exactly one assistant message with the fixed error text is appended,
\* the promise of sendMessage does not reject, and no request is issued
\* other than by a submit.
C5_FailureAppendsError ==
  [][ /\ \A c \in 1..Len(calls) :
           (Ends(c) /\ event'.got.type \in {"fetch-rejected", "json-rejected"}) =>
             /\ messages' = Append(messages, [role |-> "assistant", content |-> ErrorText])
             /\ calls'[c].pc = "fulfilled"
             /\ requests' = requests
      /\ (requests' # requests) => event'.handler = "sendMessage" ]_vars

C5_Witness ==
  /\ event.got.type = "json-rejected"
  /\ ~loading
  /\ Len(messages) = 2
  /\ Last(messages).content = ErrorText
  /\ Len(requests) = 1
  /\ calls[1].pc = "fulfilled"

\* C6: if every issued request resolves or fails, busy is always followed
\* by a state where busy is false and the form is enabled again.
C6_BusyLeadsToIdle == loading ~> (~loading /\ ~disabled)

\* a submission accepted after a failed one, handled like the first
C6_Witness ==
  /\ Len(messages) = 3
  /\ messages[2].content = ErrorText
  /\ messages[3].role = "user"
  /\ loading
  /\ Outstanding = {2}

\* C7: in every step the message sequence before is a prefix of the
\* message sequence after.
C7_AppendOnly ==
  [][ /\ Len(messages) <= Len(messages')
      /\ SubSeq(messages', 1, Len(messages)) = messages ]_vars

C7_Witness ==
  /\ Len(messages) = 4
  /\ messages[1].role = "user"
  /\ messages[2].role = "user"
  /\ messages[4].role = "assistant"

\* C8: sendMessage does not look at busy: a non-blank submit while a
\* request is outstanding appends a second user message and issues a second
\* request, and every call's reply is appended at the end when that call
\* ends, so the replies are ordered as the calls resolve.
C8_OverlappingSubmits ==
  /\ [][ /\ (event'.handler = "sendMessage" /\ ~Blank(input) /\ loading) =>
              /\ messages' = Append(messages, [role |-> "user", content |-> input])
              /\ requests' = Append(requests, [query |-> input])
              /\ Outstanding' = Outstanding \cup {Len(requests')}
         /\ \A c \in 1..Len(calls) :
              Ends(c) =>
                /\ resolved' = Append(resolved, c)
                /\ Len(messages') = Len(messages) + 1
                /\ SubSeq(messages', 1, Len(messages)) = messages
                /\ Last(messages').role = "assistant" ]_vars
  /\ [](Len(Assistants) = Len(resolved))

\* the second call resolved first, so its reply comes first
C8_Witness ==
  /\ resolved = <<2, 1>>
  /\ Len(messages) = 4
  /\ messages[1].role = "user"
  /\ messages[2].role = "user"
  /\ messages[3].content = <<"4", "2">>
  /\ messages[4].content = ErrorText

\* C9: when a request of Chat fails, one assistant message with the fixed
\* error text is appended, loading is false again and the form is enabled.
C9_ChatFailureContract ==
  event.got.type \in {"fetch-rejected", "json-rejected"} =>
    /\ messages # <<>>
    /\ Last(messages) = [role |-> "assistant", content |-> ErrorText]
    /\ ~loading
    /\ ~disabled

\* C10: through the form, roles alternate user, assistant, ... from a
\* user message; the length is odd exactly when busy; the last message is
\* a user message exactly when busy; and the draft is "" while busy.
C10_Alternation ==
  /\ \A i \in 1..Len(messages) :
       messages[i].role = IF i % 2 = 1 THEN "user" ELSE "assistant"
  /\ loading <=> (Len(messages) % 2 = 1)
  /\ loading <=> (messages # <<>> /\ Last(messages).role = "user")
  /\ loading => input = <<>>

C10_Witness ==
  /\ loading
  /\ Len(messages) = 3
  /\ input = <<>>

====
